---- MODULE Spec2Model ----
(***************************************************************************)
(* Model of the authoritative snake-arena room: the replicated state of    *)
(* server/src/rooms/schema/SnakeGameState.ts (Vector2, Food, Player,       *)
(* SnakeGameState) and the latest revision of SnakeGameRoom in the same    *)
(* file (message handlers, onJoin, onLeave, gameLoop, movePlayer,          *)
(* checkPlayerCollisions, killPlayer, respawnPlayer, spawnFood...), plus   *)
(* the client's food handlers of ui/src/game/scenes/GameScene.ts.          *)
(*                                                                         *)
(* Coordinates are integers: headings are multiples of 90 degrees, for     *)
(* which cos/sin are -1, 0 or 1, and Math.random() is drawn from small     *)
(* sets of sample values.  Every handler is one atomic action, as the room *)
(* runs on a single cooperative scheduler.                                 *)
(***************************************************************************)
EXTENDS Integers, Sequences, FiniteSets, TLC

(***************************************************************************)
(* Program constants                                                       *)
(***************************************************************************)
worldWidth == 8000
worldHeight == 8000
tickRate == 16
InitialSegments == 5
SegmentSpacing == 20
PlayerSpeed == 5
NormalMultiplier == 3
BoostMultiplier == 6
BoostDrainMs == 500
MinSegments == 5
HeadRadius == 10
SegmentRadius == 8
SelfMargin == 2
SelfSkip == 5
MaxEatDistance == 250
SpecialFoodValue == 5
SpecialSegments == 3
CorpseDivisor == 3
CorpseFoodCap == 20
CorpseJitterSpan == 40
CorpseJitterOffset == 20
NumColors == 8

(***************************************************************************)
(* Bounds of the model                                                     *)
(***************************************************************************)
\* state.maxFoods is 1000 in the source; the model fills a smaller arena.
MaxFoods == 2
\* number of gameLoop ticks explored
MaxTicks == 2
\* number of client messages (move, boost, respawn, eatFood) explored
MaxMsgs == 2

\* the long game of one client: ticks explored, client messages explored, and
\* the last tick before which those messages arrive
MaxSoloTicks == 65
MaxSoloMsgs == 4
MsgWindow == 2
MaxFeastMsgs == 6
MaxFeastTicks == 4
MaxEdgeMsgs == 1
MaxEdgeTicks == 3

\* Math.random() samples, in thousandths: 0 stands for 0.0, 999 for 0.999
RandUnit == 1000

Sessions == {"a", "b"}
NoSession == "none"

Vec(x, y) == [x |-> x, y |-> y]

\* samples of getRandomPosition() used for players
SpawnPoints == {Vec(100, 100), Vec(40, 4000)}
\* samples of getRandomPosition() and of the value draw used by spawnFood
FoodDraws == {[x |-> 100, y |-> 100, value |-> SpecialFoodValue],
              [x |-> 365, y |-> 100, value |-> 1]}
\* samples of the three Math.random() calls of one corpse food:
\* segment index, x jitter, y jitter
CorpseDraws == {[seg |-> 0, jx |-> 0, jy |-> 500],
                [seg |-> 999, jx |-> 999, jy |-> 500]}
\* headings a client sends (degrees, not normalised)
Angles == {0, 180}
SkinIds == {1}

VARIABLES
    players,      \* state.players: session id -> Player
    order,        \* iteration (insertion) order of state.players
    foods,        \* state.foods: food id -> Food
    timestamp,    \* state.timestamp
    nextFoodId,   \* stands for the fresh `food_${Date.now()}_${random}` ids
    clientFoods,  \* GameScene.foods of each connected client
    outbox,       \* messages sent by the handler that ran last
    deaths,       \* kill resolutions of the tick that ran last
    tickLog,      \* movePlayer / checkPlayerCollisions calls of that tick
    lastOp,       \* the handler that ran last
    consumed,     \* food ids of the foodConsumed broadcasts so far
    seen,         \* session ids that have connected so far
    ticks,        \* number of ticks so far
    msgs,         \* number of client messages handled so far
    deadBefore,   \* the players that were dead when the last handler started
    claim,        \* the eatFood message handled last, client's fields included
    origin        \* per player: where its head was when its heading, boost
                  \* flag or life last changed, and the ticks it moved since

vars == <<players, order, foods, timestamp, nextFoodId, clientFoods, outbox,
          deaths, tickLog, lastOp, consumed, seen, ticks, msgs, deadBefore,
          claim, origin>>

(***************************************************************************)
(* Arithmetic helpers                                                      *)
(***************************************************************************)
Min(a, b) == IF a < b THEN a ELSE b
Max(a, b) == IF a > b THEN a ELSE b

\* JavaScript's % : the result has the sign of the dividend
JsRem(a, m) == IF a >= 0 THEN a % m ELSE -((-a) % m)

\* Math.cos / Math.sin of angle * DEG_TO_RAD for multiples of 90 degrees
Cos(angle) ==
    LET a == angle % 360
    IN  IF a = 0 THEN 1 ELSE IF a = 180 THEN -1 ELSE 0

Sin(angle) ==
    LET a == angle % 360
    IN  IF a = 90 THEN 1 ELSE IF a = 270 THEN -1 ELSE 0

\* dx * dx + dy * dy of two positions (the code compares its square root)
Dist2(p, q) == (p.x - q.x) * (p.x - q.x) + (p.y - q.y) * (p.y - q.y)

\* Math.floor(Math.random() * n) for the sample r
RandIndex(r, n) == (r * n) \div RandUnit

\* Math.random() * 40 - 20 for the sample r, rounded down
Jitter(r) == ((r * CorpseJitterSpan) \div RandUnit) - CorpseJitterOffset

\* mutant: the lower edge is taken for outside the world
wrapCoordinate_ZeroToMax(value, max) ==
    IF value <= 0 THEN max + JsRem(value, max)
    ELSE IF value >= max THEN JsRem(value, max)
    ELSE value

\* mutant: the world has hard edges and coordinates are not wrapped
wrapCoordinate_NoWrap(value, max) == value

wrapCoordinate(value, max) ==
    IF value < 0 THEN max + JsRem(value, max)
    ELSE IF value >= max THEN JsRem(value, max)
    ELSE value

(***************************************************************************)
(* Player                                                                   *)
(***************************************************************************)
\* mutant: the initial segments are laid out twice as far apart
NewPlayer_WideSpacing(id, x, y, color) ==
    [id |-> id, score |-> 0, angle |-> 0, speed |-> PlayerSpeed,
     color |-> color, alive |-> TRUE, skinId |-> 0,
     segments |-> [i \in 1..InitialSegments |->
                       Vec(x - (i - 1) * 2 * SegmentSpacing, y)],
     totalLength |-> InitialSegments, boosting |-> FALSE, boostTime |-> 0,
     headPosition |-> Vec(x, y)]

NewPlayer(id, x, y, color) ==
    [id |-> id, score |-> 0, angle |-> 0, speed |-> PlayerSpeed,
     color |-> color, alive |-> TRUE, skinId |-> 0,
     segments |-> [i \in 1..InitialSegments |-> Vec(x - (i - 1) * SegmentSpacing, y)],
     totalLength |-> InitialSegments, boosting |-> FALSE, boostTime |-> 0,
     headPosition |-> Vec(x, y)]

head(pl) == pl.segments[1]

addSegment(pl) ==
    [pl EXCEPT !.segments = Append(@, @[Len(@)])]

updateHeadPosition(pl) ==
    IF Len(pl.segments) > 0
    THEN [pl EXCEPT !.headPosition = pl.segments[1]]
    ELSE pl

(***************************************************************************)
(* The room while one handler runs: R holds the state the handler reads    *)
(* and writes, the messages it has sent and the log of what it did.        *)
(***************************************************************************)
\* the payload of an eatFood message: GameScene sends the food id together
\* with the positions of head and food as the client sees them
EatMessage(foodId, headAt, foodAt) ==
    [foodId |-> foodId, headX |-> headAt.x, headY |-> headAt.y,
     foodX |-> foodAt.x, foodY |-> foodAt.y]

NoClaim == EatMessage(0, Vec(0, 0), Vec(0, 0))

Room ==
    [players |-> players, order |-> order, foods |-> foods,
     nextFoodId |-> nextFoodId, outbox |-> <<>>, deaths |-> <<>>,
     tickLog |-> <<>>, draws |-> 0, claim |-> NoClaim]

Msg(type, to, id, playerId, value, body) ==
    [type |-> type, to |-> to, id |-> id, playerId |-> playerId,
     value |-> value, body |-> body]

Broadcast(R, m) == [R EXCEPT !.outbox = Append(@, m)]

\* mutant: the food is stored but no foodSpawned event is broadcast
spawnFoodAt_Silent(R, x, y, value) ==
    LET foodId == R.nextFoodId
    IN  [R EXCEPT !.foods = (foodId :> [id |-> foodId, position |-> Vec(x, y),
                                        value |-> value]) @@ @,
                  !.nextFoodId = @ + 1]

\* spawnFood with getRandomPosition() = (d.x, d.y) and the value draw d.value
spawnFoodAt(R, x, y, value) ==
    LET foodId == R.nextFoodId
        R1 == [R EXCEPT !.foods = (foodId :> [id |-> foodId, position |-> Vec(x, y),
                                              value |-> value]) @@ @,
                        !.nextFoodId = @ + 1]
    IN  Broadcast(R1, Msg("foodSpawned", "all", foodId, NoSession, value, Vec(x, y)))

spawnFood(R, d) == spawnFoodAt(R, d.x, d.y, d.value)

killPlayer(R, p) ==
    Broadcast([R EXCEPT !.players[p].alive = FALSE],
              Msg("playerDied", "all", 0, p, 0, <<>>))

\* the k-th corpse food of one call, placed with the random sample d
CorpseFood(R, p, d) ==
    LET segs == R.players[p].segments
        segment == segs[RandIndex(d.seg, Len(segs)) + 1]
    IN  spawnFoodAt(R, segment.x + Jitter(d.jx), segment.y + Jitter(d.jy), 1)

RECURSIVE CorpseLoop(_, _, _, _)
CorpseLoop(R, p, n, rs) ==
    IF n = 0 THEN R
    ELSE LET d  == rs[(R.draws % Len(rs)) + 1]
             R1 == CorpseFood([R EXCEPT !.draws = @ + 1], p, d)
         IN  CorpseLoop(R1, p, n - 1, rs)

\* mutant: the corpse leaves one food per segment
spawnFoodFromDeadPlayer_PerSegment(R, p, rs) ==
    CorpseLoop(R, p, Len(R.players[p].segments), rs)

spawnFoodFromDeadPlayer(R, p, rs) ==
    LET foodPerSegment ==
            Min(Len(R.players[p].segments) \div CorpseDivisor, CorpseFoodCap)
    IN  CorpseLoop(R, p, foodPerSegment, rs)

(***************************************************************************)
(* Movement                                                                *)
(***************************************************************************)
\* mutant: the drain pops the tail without looking at the chain's length
BoostDrain_BelowFloor(pl) ==
    IF pl.boosting
    THEN LET p1 == [pl EXCEPT !.boostTime = @ + tickRate]
         IN  IF p1.boostTime >= BoostDrainMs
             THEN [p1 EXCEPT !.boostTime = 0,
                             !.score = Max(0, @ - 1),
                             !.segments = SubSeq(@, 1, Len(@) - 1)]
             ELSE p1
    ELSE [pl EXCEPT !.boostTime = 0]

\* mutant: the accumulator keeps running after a drain
BoostDrain_NoReset(pl) ==
    IF pl.boosting
    THEN LET p1 == [pl EXCEPT !.boostTime = @ + tickRate]
         IN  IF p1.boostTime >= BoostDrainMs
             THEN IF Len(p1.segments) > MinSegments
                  THEN [p1 EXCEPT !.score = Max(0, @ - 1),
                                  !.segments = SubSeq(@, 1, Len(@) - 1)]
                  ELSE [p1 EXCEPT !.boosting = FALSE, !.boostTime = 0]
             ELSE p1
    ELSE [pl EXCEPT !.boostTime = 0]

\* the boost bookkeeping of movePlayer (the block guarded by player.boosting)
\* the drain takes its score point whatever the chain's length and without
\* the clamp at 0
BoostDrain_Unclamped(pl) ==
    IF pl.boosting
    THEN LET p1 == [pl EXCEPT !.boostTime = @ + tickRate]
         IN  IF p1.boostTime >= BoostDrainMs
             THEN LET p2 == [p1 EXCEPT !.boostTime = 0, !.score = @ - 1]
                  IN  IF Len(p2.segments) > MinSegments
                      THEN [p2 EXCEPT !.segments = SubSeq(@, 1, Len(@) - 1)]
                      ELSE [p2 EXCEPT !.boosting = FALSE]
             ELSE p1
    ELSE [pl EXCEPT !.boostTime = 0]

BoostDrain(pl) ==
    IF pl.boosting
    THEN LET p1 == [pl EXCEPT !.boostTime = @ + tickRate]
         IN  IF p1.boostTime >= BoostDrainMs
             THEN LET p2 == [p1 EXCEPT !.boostTime = 0]
                  IN  IF Len(p2.segments) > MinSegments
                      THEN LET p3 == [p2 EXCEPT !.score = Max(0, @ - 1)]
                           IN  IF Len(p3.segments) > MinSegments
                               THEN [p3 EXCEPT !.segments =
                                         SubSeq(@, 1, Len(@) - 1)]
                               ELSE [p3 EXCEPT !.boosting = FALSE]
                      ELSE [p2 EXCEPT !.boosting = FALSE]
             ELSE p1
    ELSE [pl EXCEPT !.boostTime = 0]

\* mutant: the shift copies from the head's side, so every trailing segment
\* ends up where the old head was
ShiftSegments_Forward(segs, newHead) ==
    [i \in 1..Len(segs) |-> IF i = 1 THEN newHead ELSE segs[1]]

\* the follow-the-leader shift and the new head of movePlayer
ShiftSegments(segs, newHead) ==
    [i \in 1..Len(segs) |-> IF i = 1 THEN newHead ELSE segs[i - 1]]

\* mutant: the step is the speed itself when the player is not boosting
MovedPlayer_Unscaled(pl) ==
    LET speedMultiplier == IF pl.boosting THEN 2 ELSE 1
        p1   == BoostDrain(pl)
        dx   == Cos(pl.angle) * pl.speed * speedMultiplier
        dy   == Sin(pl.angle) * pl.speed * speedMultiplier
        newX == wrapCoordinate(pl.segments[1].x + dx, worldWidth)
        newY == wrapCoordinate(pl.segments[1].y + dy, worldHeight)
    IN  updateHeadPosition(
            [p1 EXCEPT !.segments = ShiftSegments(@, Vec(newX, newY))])

\* mutant: the vertical step is computed with the cosine, too
MovedPlayer_CosForBoth(pl) ==
    LET speedMultiplier == IF pl.boosting THEN BoostMultiplier ELSE NormalMultiplier
        p1   == BoostDrain(pl)
        dx   == Cos(pl.angle) * pl.speed * speedMultiplier
        dy   == Cos(pl.angle) * pl.speed * speedMultiplier
        newX == wrapCoordinate(pl.segments[1].x + dx, worldWidth)
        newY == wrapCoordinate(pl.segments[1].y + dy, worldHeight)
    IN  updateHeadPosition(
            [p1 EXCEPT !.segments = ShiftSegments(@, Vec(newX, newY))])

MovedPlayer(pl) ==
    LET speedMultiplier == IF pl.boosting THEN BoostMultiplier ELSE NormalMultiplier
        p1   == BoostDrain(pl)
        dx   == Cos(pl.angle) * pl.speed * speedMultiplier
        dy   == Sin(pl.angle) * pl.speed * speedMultiplier
        newX == wrapCoordinate(pl.segments[1].x + dx, worldWidth)
        newY == wrapCoordinate(pl.segments[1].y + dy, worldHeight)
    IN  updateHeadPosition(
            [p1 EXCEPT !.segments = ShiftSegments(@, Vec(newX, newY))])

\* the log entry tells what the boost block did: it popped the tail
\* ("segment"), it switched boosting off ("off"), or neither ("none")
movePlayer(R, p) ==
    LET pl == R.players[p]
        moved == MovedPlayer(pl)
        drain == IF Len(moved.segments) < Len(pl.segments) THEN "segment"
                 ELSE IF pl.boosting /\ ~moved.boosting THEN "off"
                 ELSE "none"
        R1 == [R EXCEPT !.tickLog =
                   Append(@, [step |-> "move", player |-> p, drain |-> drain])]
    IN  IF ~pl.alive \/ Len(pl.segments) = 0
        THEN R
        ELSE [R1 EXCEPT !.players[p] = moved]

(***************************************************************************)
(* Collisions                                                              *)
(***************************************************************************)
\* mutant: the inner loop starts at the other player's head (index 0)
HitsBody_FromHead(h, segs) ==
    \E i \in 1..Len(segs) :
        Dist2(h, segs[i]) < (HeadRadius + SegmentRadius) * (HeadRadius + SegmentRadius)

\* the inner for loop over otherPlayer.segments, from index 1
HitsBody(h, segs) ==
    \E i \in 2..Len(segs) :
        Dist2(h, segs[i]) < (HeadRadius + SegmentRadius) * (HeadRadius + SegmentRadius)

\* mutant: the self-collision check uses the radius of the inter-player check
HitsSelf_Wide(h, segs) ==
    \E i \in (SelfSkip + 1)..Len(segs) :
        Dist2(h, segs[i]) < (HeadRadius + SegmentRadius) * (HeadRadius + SegmentRadius)

\* the self-collision loop, from index 5
HitsSelf(h, segs) ==
    \E i \in (SelfSkip + 1)..Len(segs) :
        Dist2(h, segs[i]) < (HeadRadius - SelfMargin) * (HeadRadius - SelfMargin)

LogDeath(R, victim, killer, award) ==
    [R EXCEPT !.deaths = Append(@, [victim |-> victim, killer |-> killer,
                                    award |-> award,
                                    killerAlive |-> R.players[killer].alive])]

\* the body of the if inside the forEach callback: player ran into otherPlayer
KillByOther(R, p, o, rs) ==
    LET award == R.players[p].score \div 2
        R0 == LogDeath(R, p, o, award)
        R1 == killPlayer(R0, p)
        R2 == [R1 EXCEPT !.players[o].score = @ + award]
    IN  spawnFoodFromDeadPlayer(R2, p, rs)

\* mutant: the bodies of dead players are checked too
OtherSkipped_IgnoresAlive(R, p, o) == o = p

\* the callback of this.state.players.forEach, for the k-th other player
OtherSkipped(R, p, o) == o = p \/ ~R.players[o].alive

RECURSIVE OthersLoop(_, _, _, _)
OthersLoop(R, p, k, rs) ==
    IF k > Len(R.order) THEN R
    ELSE LET o  == R.order[k]
             R1 == IF OtherSkipped(R, p, o) THEN R
                   ELSE IF HitsBody(head(R.players[p]), R.players[o].segments)
                        THEN KillByOther(R, p, o, rs)
                        ELSE R
         IN  OthersLoop(R1, p, k + 1, rs)

SelfCheck(R, p, rs) ==
    IF HitsSelf(head(R.players[p]), R.players[p].segments)
    THEN spawnFoodFromDeadPlayer(killPlayer(LogDeath(R, p, p, 0), p), p, rs)
    ELSE R

checkPlayerCollisions(R, p, rs) ==
    IF ~R.players[p].alive THEN R
    ELSE LET R1 == [R EXCEPT !.tickLog =
                        Append(@, [step |-> "check", player |-> p,
                                   drain |-> "none"])]
         IN  SelfCheck(OthersLoop(R1, p, 1, rs), p, rs)

(***************************************************************************)
(* The tick                                                                *)
(***************************************************************************)
RECURSIVE PlayersLoop_StopAtDeath(_, _, _)
\* mutant: the loop over the players ends at the first death of the tick
PlayersLoop_StopAtDeath(R, k, rs) ==
    IF k > Len(R.order) \/ R.deaths # <<>> THEN R
    ELSE LET p  == R.order[k]
             R1 == IF ~R.players[p].alive THEN R
                   ELSE checkPlayerCollisions(movePlayer(R, p), p, rs)
         IN  PlayersLoop_StopAtDeath(R1, k + 1, rs)

RECURSIVE PlayersLoop(_, _, _)
PlayersLoop(R, k, rs) ==
    IF k > Len(R.order) THEN R
    ELSE LET p  == R.order[k]
             R1 == IF ~R.players[p].alive THEN R
                   ELSE checkPlayerCollisions(movePlayer(R, p), p, rs)
         IN  PlayersLoop(R1, k + 1, rs)

\* rs: the random samples of the corpse foods; d: those of the replenishment
gameLoop(R, rs, d) ==
    LET R1 == PlayersLoop(R, 1, rs)
    IN  IF Cardinality(DOMAIN R1.foods) < MaxFoods
        THEN spawnFood(R1, d)
        ELSE R1

(***************************************************************************)
(* The client's replica of the food set (GameScene.setupRoomHandlers)      *)
(***************************************************************************)
ClientApply(fs, m) ==
    IF m.type = "initialFoods" THEN DOMAIN m.body
    ELSE IF m.type = "foodSpawned"
         THEN (IF m.id \in fs THEN fs ELSE fs \cup {m.id})
    ELSE IF m.type = "foodConsumed"
         THEN (IF m.id \in fs THEN fs \ {m.id} ELSE fs)
    ELSE fs

RECURSIVE ClientFold(_, _, _, _)
ClientFold(fs, c, box, k) ==
    IF k > Len(box) THEN fs
    ELSE ClientFold(IF box[k].to \in {"all", c} THEN ClientApply(fs, box[k]) ELSE fs,
                    c, box, k + 1)

\* every connected client handles the messages of the handler, in order
Deliver(old, connected, box) ==
    [c \in connected |->
        ClientFold(IF c \in DOMAIN old THEN old[c] ELSE {}, c, box, 1)]

\* where a straight run of player p starts: the run is restarted when the
\* player is new, when its heading, boost flag or life has changed, and when
\* a message handler has put its head elsewhere; a tick prolongs it
StartOfRun(pl) == [head |-> pl.segments[1], n |-> 0]

Followed(pl, p, op) ==
    IF p \notin DOMAIN players THEN StartOfRun(pl)
    ELSE LET old == players[p]
         IN  IF \/ old.angle # pl.angle
                \/ old.boosting # pl.boosting
                \/ old.alive # pl.alive
                \/ (op # "tick" /\ old.segments[1] # pl.segments[1])
             THEN StartOfRun(pl)
             ELSE IF op = "tick" /\ pl.alive
                  THEN [origin[p] EXCEPT !.n = @ + 1]
                  ELSE origin[p]

\* the handler is over: its effects become the room's state
Commit(R, op, who, arg) ==
    /\ players' = R.players
    /\ order' = R.order
    /\ foods' = R.foods
    /\ nextFoodId' = R.nextFoodId
    /\ outbox' = R.outbox
    /\ deaths' = R.deaths
    /\ tickLog' = R.tickLog
    /\ clientFoods' = Deliver(clientFoods, DOMAIN R.players, R.outbox)
    /\ lastOp' = [op |-> op, who |-> who, arg |-> arg]
    /\ deadBefore' = {p \in DOMAIN players : ~players[p].alive}
    /\ claim' = R.claim
    /\ origin' = [p \in DOMAIN R.players |-> Followed(R.players[p], p, op)]

(***************************************************************************)
(* onCreate                                                                *)
(***************************************************************************)
RECURSIVE initializeFood(_, _, _)
initializeFood(R, ds, k) ==
    IF k > MaxFoods THEN R
    ELSE initializeFood(spawnFood(R, ds[k]), ds, k + 1)

EmptyRoom ==
    [players |-> <<>>, order |-> <<>>, foods |-> <<>>, nextFoodId |-> 1,
     outbox |-> <<>>, deaths |-> <<>>, tickLog |-> <<>>, draws |-> 0,
     claim |-> NoClaim]

Init ==
    \E ds \in [1..MaxFoods -> FoodDraws] :
        LET R == initializeFood(EmptyRoom, ds, 1)
        IN  /\ players = R.players
            /\ order = R.order
            /\ foods = R.foods
            /\ nextFoodId = R.nextFoodId
            /\ outbox = R.outbox
            /\ deaths = <<>>
            /\ tickLog = <<>>
            /\ clientFoods = <<>>
            /\ lastOp = [op |-> "create", who |-> NoSession, arg |-> 0]
            /\ deadBefore = {}
            /\ claim = NoClaim
            /\ origin = <<>>
            /\ timestamp = 0
            /\ consumed = <<>>
            /\ seen = {}
            /\ ticks = 0
            /\ msgs = 0

(***************************************************************************)
(* Handlers                                                                *)
(***************************************************************************)
\* one more client message is taken from the transport
Received == msgs < MaxMsgs /\ msgs' = msgs + 1

InitialFoodsOf(fs) ==
    [f \in DOMAIN fs |-> [id |-> f, position |-> fs[f].position, value |-> fs[f].value]]

\* mutant: the joining client gets its welcome but no food snapshot
onJoin_WelcomeOnly(R, c, sp, skinId) ==
    LET color  == skinId % NumColors
        player == [NewPlayer(c, sp.x, sp.y, color) EXCEPT !.skinId = skinId]
        R1 == [R EXCEPT !.players = (c :> player) @@ @,
                        !.order = Append(@, c)]
    IN  Broadcast(R1, Msg("welcome", c, 0, c, color, sp))

onJoin(R, c, sp, skinId) ==
    LET color  == skinId % NumColors
        player == [NewPlayer(c, sp.x, sp.y, color) EXCEPT !.skinId = skinId]
        R1 == [R EXCEPT !.players = (c :> player) @@ @,
                        !.order = Append(@, c)]
        R2 == Broadcast(R1, Msg("welcome", c, 0, c, color, sp))
    IN  Broadcast(R2, Msg("initialFoods", c, 0, c, 0, InitialFoodsOf(R2.foods)))

OnJoin(c, sp, skinId) ==
    /\ c \notin seen
    /\ seen' = seen \cup {c}
    /\ Commit(onJoin(Room, c, sp, skinId), "join", c, 0)
    /\ UNCHANGED <<timestamp, consumed, ticks, msgs>>

RemoveKey(f, k) == [x \in DOMAIN f \ {k} |-> f[x]]

RemoveFromOrder(ord, c) == SelectSeq(ord, LAMBDA x : x # c)

\* mutant: a leave empties the players map
onLeave_All(R, c) ==
    [R EXCEPT !.players = <<>>, !.order = <<>>]

onLeave(R, c) ==
    [R EXCEPT !.players = RemoveKey(@, c), !.order = RemoveFromOrder(@, c)]

OnLeave(c) ==
    /\ Commit(onLeave(Room, c), "leave", c, 0)
    /\ UNCHANGED <<timestamp, consumed, seen, ticks, msgs>>

\* mutant: the heading is brought into [0, 360) before it is stored
onMove_Normalised(R, c, angle) ==
    IF c \in DOMAIN R.players /\ R.players[c].alive
    THEN [R EXCEPT !.players[c].angle = angle % 360]
    ELSE R

onMove(R, c, angle) ==
    IF c \in DOMAIN R.players /\ R.players[c].alive
    THEN [R EXCEPT !.players[c].angle = angle]
    ELSE R

Move(c, angle) ==
    /\ Received
    /\ Commit(onMove(Room, c, angle), "move", c, 0)
    /\ UNCHANGED <<timestamp, consumed, seen, ticks>>

\* mutant: the boost flag follows the message whatever the score
onBoost_Ungated(R, c, active) ==
    IF c \in DOMAIN R.players /\ R.players[c].alive
    THEN [R EXCEPT !.players[c].boosting = active]
    ELSE R

onBoost(R, c, active) ==
    IF c \in DOMAIN R.players /\ R.players[c].alive
    THEN [R EXCEPT !.players[c].boosting = (active /\ R.players[c].score >= 1)]
    ELSE R

Boost(c, active) ==
    /\ Received
    /\ Commit(onBoost(Room, c, active), "boost", c, 0)
    /\ UNCHANGED <<timestamp, consumed, seen, ticks>>

\* mutant: a respawn message resets every player of the room
respawnPlayer_All(R, c, sp) ==
    IF c \notin DOMAIN R.players THEN R
    ELSE [R EXCEPT !.players =
             [q \in DOMAIN @ |->
                 [@[q] EXCEPT !.alive = TRUE,
                              !.score = 0,
                              !.segments =
                                  [i \in 1..InitialSegments |->
                                      Vec(sp.x - (i - 1) * SegmentSpacing, sp.y)]]]]

respawnPlayer(R, c, sp) ==
    IF c \notin DOMAIN R.players THEN R
    ELSE [R EXCEPT !.players[c].alive = TRUE,
                   !.players[c].score = 0,
                   !.players[c].segments =
                       [i \in 1..InitialSegments |->
                           Vec(sp.x - (i - 1) * SegmentSpacing, sp.y)]]

Respawn(c, sp) ==
    /\ Received
    /\ Commit(respawnPlayer(Room, c, sp), "respawn", c, 0)
    /\ UNCHANGED <<timestamp, consumed, seen, ticks>>

\* mutant: the distance between head and food is not checked
EatAccepted_NoRange(R, c, f) ==
    /\ c \in DOMAIN R.players
    /\ R.players[c].alive
    /\ f \in DOMAIN R.foods

RECURSIVE Grow(_, _)
Grow(pl, n) == IF n = 0 THEN pl ELSE Grow(addSegment(pl), n - 1)

\* the guards of the eatFood handler
EatAccepted(R, c, f) ==
    /\ c \in DOMAIN R.players
    /\ R.players[c].alive
    /\ f \in DOMAIN R.foods
    /\ Dist2(head(R.players[c]), R.foods[f].position)
           <= MaxEatDistance * MaxEatDistance

\* mutant: every food grows the snake by one segment
onEatFood_OneSegment(R, c, f, d) ==
    IF ~EatAccepted(R, c, f) THEN R
    ELSE LET food == R.foods[f]
             R1 == [R EXCEPT !.players[c] =
                        Grow([@ EXCEPT !.score = @ + food.value], 1)]
             R2 == Broadcast(R1, Msg("foodConsumed", "all", f, c, food.value, <<>>))
             R3 == [R2 EXCEPT !.foods = RemoveKey(@, f)]
         IN  spawnFood(R3, d)

\* mutant: the eaten food is not deleted from the food map
onEatFood_KeepFood(R, c, f, d) ==
    IF ~EatAccepted(R, c, f) THEN R
    ELSE LET food == R.foods[f]
             segmentsToAdd == IF food.value > 1 THEN SpecialSegments ELSE 1
             R1 == [R EXCEPT !.players[c] =
                        Grow([@ EXCEPT !.score = @ + food.value], segmentsToAdd)]
             R2 == Broadcast(R1, Msg("foodConsumed", "all", f, c, food.value, <<>>))
         IN  spawnFood(R2, d)

\* mutant: a plain food grows the snake by two segments
onEatFood_TwoSegments(R, c, f, d) ==
    IF ~EatAccepted(R, c, f) THEN R
    ELSE LET food == R.foods[f]
             segmentsToAdd == IF food.value > 1 THEN SpecialSegments ELSE 2
             R1 == [R EXCEPT !.players[c] =
                        Grow([@ EXCEPT !.score = @ + food.value], segmentsToAdd)]
             R2 == Broadcast(R1, Msg("foodConsumed", "all", f, c, food.value, <<>>))
             R3 == [R2 EXCEPT !.foods = RemoveKey(@, f)]
         IN  spawnFood(R3, d)

\* mutant: the handler leaves the replacement of the eaten food to the tick
onEatFood_NoRefill(R, c, f, d) ==
    IF ~EatAccepted(R, c, f) THEN R
    ELSE LET food == R.foods[f]
             segmentsToAdd == IF food.value > 1 THEN SpecialSegments ELSE 1
             R1 == [R EXCEPT !.players[c] =
                        Grow([@ EXCEPT !.score = @ + food.value], segmentsToAdd)]
             R2 == Broadcast(R1, Msg("foodConsumed", "all", f, c, food.value, <<>>))
         IN  [R2 EXCEPT !.foods = RemoveKey(@, f)]

\* d: the random samples of the replacement spawnFood
onEatFood(R, c, f, d) ==
    IF ~EatAccepted(R, c, f) THEN R
    ELSE LET food == R.foods[f]
             segmentsToAdd == IF food.value > 1 THEN SpecialSegments ELSE 1
             R1 == [R EXCEPT !.players[c] =
                        Grow([@ EXCEPT !.score = @ + food.value], segmentsToAdd)]
             R2 == Broadcast(R1, Msg("foodConsumed", "all", f, c, food.value, <<>>))
             R3 == [R2 EXCEPT !.foods = RemoveKey(@, f)]
         IN  spawnFood(R3, d)

\* mutant: the distance is measured from the head position the client claims
onEatFoodMessage_TrustClient(R, c, m, d) ==
    LET R0 == [R EXCEPT !.claim = m]
        f  == m.foodId
    IN  IF \/ c \notin DOMAIN R.players
           \/ ~R.players[c].alive
           \/ f \notin DOMAIN R.foods
        THEN R0
        ELSE IF Dist2(Vec(m.headX, m.headY), R.foods[f].position)
                    > MaxEatDistance * MaxEatDistance
        THEN R0
        ELSE LET food == R.foods[f]
                 segmentsToAdd == IF food.value > 1 THEN SpecialSegments ELSE 1
                 R1 == [R0 EXCEPT !.players[c] =
                            Grow([@ EXCEPT !.score = @ + food.value], segmentsToAdd)]
                 R2 == Broadcast(R1, Msg("foodConsumed", "all", f, c, food.value, <<>>))
                 R3 == [R2 EXCEPT !.foods = RemoveKey(@, f)]
             IN  spawnFood(R3, d)

\* the eatFood handler on its message m: it reads message.foodId and nothing
\* else of what the client sends
onEatFoodMessage(R, c, m, d) ==
    onEatFood([R EXCEPT !.claim = m], c, m.foodId, d)

\* the message GameScene sends for food f: the head and the food where the
\* client has them (an unknown client or food is placed at the corner)
ClientClaim(c, f) ==
    EatMessage(f,
               IF c \in DOMAIN players THEN players[c].headPosition ELSE Vec(0, 0),
               IF f \in DOMAIN foods THEN foods[f].position ELSE Vec(0, 0))

ConsumedBy(box) == SelectSeq(box, LAMBDA m : m.type = "foodConsumed")

EatFood(c, f, d) ==
    /\ Received
    /\ LET R == onEatFoodMessage(Room, c, ClientClaim(c, f), d)
       IN  /\ Commit(R, "eatFood", c, f)
           /\ consumed' = consumed \o [i \in 1..Len(ConsumedBy(R.outbox)) |->
                                          ConsumedBy(R.outbox)[i].id]
    /\ UNCHANGED <<timestamp, seen, ticks>>

Tick(rs, d) ==
    /\ ticks < MaxTicks
    /\ ticks' = ticks + 1
    /\ Commit(gameLoop(Room, rs, d), "tick", NoSession, 0)
    /\ UNCHANGED <<timestamp, consumed, seen, msgs>>

Next ==
    \/ \E c \in Sessions, sp \in SpawnPoints, skinId \in SkinIds : OnJoin(c, sp, skinId)
    \/ \E c \in Sessions : OnLeave(c)
    \/ \E c \in Sessions, angle \in Angles : Move(c, angle)
    \/ \E c \in Sessions, active \in BOOLEAN : Boost(c, active)
    \/ \E c \in Sessions, sp \in SpawnPoints : Respawn(c, sp)
    \/ \E c \in Sessions, f \in 1..nextFoodId, d \in FoodDraws : EatFood(c, f, d)
    \/ \E r \in CorpseDraws, d \in FoodDraws : Tick(<<r>>, d)

Spec == Init /\ [][Next]_vars

(***************************************************************************)
(* A crowded arena: three clients, of which the specification explores the *)
(* joins, the headings, the eat claims and the ticks.                      *)
(***************************************************************************)
Crowd == {"a", "b", "c"}
CrowdOrder == <<"a", "b", "c">>

RECURSIVE JoinAll(_, _, _)
JoinAll(R, k, sp) ==
    IF k > Len(CrowdOrder) THEN R
    ELSE JoinAll(onJoin([R EXCEPT !.outbox = <<>>], CrowdOrder[k], sp, 1), k + 1, sp)

\* the room after onCreate and the joins of the three clients at one place
InitCrowd ==
    \E ds \in [1..MaxFoods -> FoodDraws], sp \in SpawnPoints :
        LET R == JoinAll(initializeFood(EmptyRoom, ds, 1), 1, sp)
        IN  /\ players = R.players
            /\ order = R.order
            /\ foods = R.foods
            /\ nextFoodId = R.nextFoodId
            /\ outbox = R.outbox
            /\ deaths = <<>>
            /\ tickLog = <<>>
            /\ clientFoods = [c \in Crowd |-> DOMAIN R.foods]
            /\ lastOp = [op |-> "join", who |-> CrowdOrder[Len(CrowdOrder)], arg |-> 0]
            /\ deadBefore = {}
            /\ claim = NoClaim
            /\ origin = [c \in Crowd |-> StartOfRun(R.players[c])]
            /\ timestamp = 0
            /\ consumed = <<>>
            /\ seen = Crowd
            /\ ticks = 0
            /\ msgs = 0

NextCrowd ==
    \/ \E c \in Crowd, angle \in Angles : Move(c, angle)
    \/ \E c \in Crowd, f \in 1..nextFoodId, d \in FoodDraws : EatFood(c, f, d)
    \/ \E r \in CorpseDraws, d \in FoodDraws : Tick(<<r>>, d)

SpecCrowd == InitCrowd /\ [][NextCrowd]_vars

(***************************************************************************)
(* A long game of one client: it joins, sends a few messages during the    *)
(* first ticks (eat claims, headings outside [0, 360), boost, respawn) and *)
(* the room then ticks on, long enough for the boost drain (500 ms are 32  *)
(* ticks of 16 ms, twice) and for the snake to cross the world's edges.    *)
(***************************************************************************)
Solo == "a"
\* the sample of getRandomPosition() for the join and the respawns
SoloSpawn == Vec(100, 10)
\* the samples of spawnFood during onCreate: a special food, then plain ones
SoloFoodDraw(k) ==
    IF k = 1 THEN [x |-> 100, y |-> 100, value |-> SpecialFoodValue]
    ELSE [x |-> 120, y |-> 10, value |-> 1]
\* the sample of the later spawnFood calls
SoloRefill == [x |-> 4000, y |-> 4000, value |-> 1]
SoloCorpseDraw == [seg |-> 0, jx |-> 500, jy |-> 500]
\* headings the client sends (degrees, not normalised)
SoloAngles == {540, -90}
\* where the client says head and food are when it claims a food: the spawn
\* point, or a place far from everything
ClaimedPlaces == {SoloSpawn, Vec(5000, 5000)}

InitSolo ==
    LET R0 == initializeFood(EmptyRoom, [k \in 1..MaxFoods |-> SoloFoodDraw(k)], 1)
        R  == onJoin([R0 EXCEPT !.outbox = <<>>], Solo, SoloSpawn, 1)
    IN  /\ players = R.players
        /\ order = R.order
        /\ foods = R.foods
        /\ nextFoodId = R.nextFoodId
        /\ outbox = R.outbox
        /\ deaths = <<>>
        /\ tickLog = <<>>
        /\ clientFoods = (Solo :> DOMAIN R.foods)
        /\ lastOp = [op |-> "join", who |-> Solo, arg |-> 0]
        /\ deadBefore = {}
        /\ claim = NoClaim
        /\ origin = (Solo :> StartOfRun(R.players[Solo]))
        /\ timestamp = 0
        /\ consumed = <<>>
        /\ seen = {Solo}
        /\ ticks = 0
        /\ msgs = 0

SoloReceived == msgs < MaxSoloMsgs /\ ticks <= MsgWindow /\ msgs' = msgs + 1

SoloMove(angle) ==
    /\ SoloReceived
    /\ Commit(onMove(Room, Solo, angle), "move", Solo, 0)
    /\ UNCHANGED <<timestamp, consumed, seen, ticks>>

SoloBoost(active) ==
    /\ SoloReceived
    /\ Commit(onBoost(Room, Solo, active), "boost", Solo, 0)
    /\ UNCHANGED <<timestamp, consumed, seen, ticks>>

SoloRespawn ==
    /\ SoloReceived
    /\ Commit(respawnPlayer(Room, Solo, SoloSpawn), "respawn", Solo, 0)
    /\ UNCHANGED <<timestamp, consumed, seen, ticks>>

SoloEatFood(f, h) ==
    /\ SoloReceived
    /\ LET R == onEatFoodMessage(Room, Solo, EatMessage(f, h, h), SoloRefill)
       IN  /\ Commit(R, "eatFood", Solo, f)
           /\ consumed' = consumed \o [i \in 1..Len(ConsumedBy(R.outbox)) |->
                                          ConsumedBy(R.outbox)[i].id]
    /\ UNCHANGED <<timestamp, seen, ticks>>

SoloTick ==
    /\ ticks < MaxSoloTicks
    /\ ticks' = ticks + 1
    /\ Commit(gameLoop(Room, <<SoloCorpseDraw>>, SoloRefill), "tick", NoSession, 0)
    /\ UNCHANGED <<timestamp, consumed, seen, msgs>>

NextSolo ==
    \/ \E angle \in SoloAngles : SoloMove(angle)
    \/ \E active \in BOOLEAN : SoloBoost(active)
    \/ SoloRespawn
    \/ \E f \in DOMAIN foods, h \in ClaimedPlaces : SoloEatFood(f, h)
    \/ SoloTick

SpecSolo == InitSolo /\ [][NextSolo]_vars

(***************************************************************************)
(* A feeding session of one client: it keeps its heading and claims food   *)
(* after food, and every food the room spawns in exchange lands within     *)
(* reach of the snake, so that the chain can grow by 3 segments per claim  *)
(* for as long as the client sends claims.                                 *)
(***************************************************************************)
\* the samples of spawnFood after a claim: a plain food ahead of the snake,
\* or a special one beside it
FeastDraws == {[x |-> 120, y |-> 10, value |-> 1],
               [x |-> 100, y |-> 100, value |-> SpecialFoodValue]}

InitFeast == InitSolo

FeastEatFood(f, d) ==
    /\ msgs < MaxFeastMsgs
    /\ msgs' = msgs + 1
    /\ LET R == onEatFoodMessage(Room, Solo, ClientClaim(Solo, f), d)
       IN  /\ Commit(R, "eatFood", Solo, f)
           /\ consumed' = consumed \o [i \in 1..Len(ConsumedBy(R.outbox)) |->
                                          ConsumedBy(R.outbox)[i].id]
    /\ UNCHANGED <<timestamp, seen, ticks>>

FeastTick ==
    /\ ticks < MaxFeastTicks
    /\ ticks' = ticks + 1
    /\ Commit(gameLoop(Room, <<SoloCorpseDraw>>, SoloRefill), "tick", NoSession, 0)
    /\ UNCHANGED <<timestamp, consumed, seen, msgs>>

NextFeast ==
    \/ \E f \in DOMAIN foods, d \in FeastDraws : FeastEatFood(f, d)
    \/ FeastTick

SpecFeast == InitFeast /\ [][NextFeast]_vars

(***************************************************************************)
(* Single steps at the world's edge: movePlayer applied to a player whose  *)
(* head is at or next to an edge of the world.  The spawn point and the    *)
(* player's speed are the inputs: speed is a field of Player which this    *)
(* room leaves at 5, and the step is also taken with a speed of 3.         *)
(***************************************************************************)
\* samples of getRandomPosition() at the edges of the world
EdgeHeads == {Vec(7999, 10), Vec(0, 0), Vec(4000, 7999)}
EdgeSpeeds == {3, PlayerSpeed}
\* headings the client sends
EdgeAngles == {0, 90, 180, 270}

InitEdge ==
    \E h \in EdgeHeads, speed \in EdgeSpeeds :
        LET R0 == initializeFood(EmptyRoom, [k \in 1..MaxFoods |-> SoloFoodDraw(k)], 1)
            R1 == onJoin([R0 EXCEPT !.outbox = <<>>], Solo, h, 1)
            R  == [R1 EXCEPT !.players[Solo].speed = speed]
        IN  /\ players = R.players
            /\ order = R.order
            /\ foods = R.foods
            /\ nextFoodId = R.nextFoodId
            /\ outbox = R.outbox
            /\ deaths = <<>>
            /\ tickLog = <<>>
            /\ clientFoods = (Solo :> DOMAIN R.foods)
            /\ lastOp = [op |-> "join", who |-> Solo, arg |-> 0]
            /\ deadBefore = {}
            /\ claim = NoClaim
            /\ origin = (Solo :> StartOfRun(R.players[Solo]))
            /\ timestamp = 0
            /\ consumed = <<>>
            /\ seen = {Solo}
            /\ ticks = 0
            /\ msgs = 0

EdgeMove(angle) ==
    /\ msgs < MaxEdgeMsgs
    /\ msgs' = msgs + 1
    /\ Commit(onMove(Room, Solo, angle), "move", Solo, 0)
    /\ UNCHANGED <<timestamp, consumed, seen, ticks>>

EdgeTick ==
    /\ ticks < MaxEdgeTicks
    /\ ticks' = ticks + 1
    /\ Commit(gameLoop(Room, <<SoloCorpseDraw>>, SoloRefill), "tick", NoSession, 0)
    /\ UNCHANGED <<timestamp, consumed, seen, msgs>>

NextEdge ==
    \/ \E angle \in EdgeAngles : EdgeMove(angle)
    \/ EdgeTick

SpecEdge == InitEdge /\ [][NextEdge]_vars

(***************************************************************************)
(* Vocabulary of the properties                                            *)
(***************************************************************************)
AnySession == Sessions \cup Crowd

Count(seq, Test(_)) == Len(SelectSeq(seq, Test))

\* the step just taken is the given handler (lastOp' names it)
IsTickStep ==
    /\ lastOp'.op = "tick"
    /\ \E r \in CorpseDraws, d \in FoodDraws : Tick(<<r>>, d)

IsEatStep(c, f) ==
    /\ lastOp' = [op |-> "eatFood", who |-> c, arg |-> f]
    /\ \E d \in FoodDraws : EatFood(c, f, d)

IsJoinStep(c) ==
    /\ lastOp' = [op |-> "join", who |-> c, arg |-> 0]
    /\ \E sp \in SpawnPoints, skinId \in SkinIds : OnJoin(c, sp, skinId)

IsRespawnStep(c) ==
    /\ lastOp' = [op |-> "respawn", who |-> c, arg |-> 0]
    /\ \E sp \in SpawnPoints : Respawn(c, sp)

IsLeaveStep(c) ==
    /\ lastOp' = [op |-> "leave", who |-> c, arg |-> 0]
    /\ OnLeave(c)

\* the players that ran into another player's body in the last tick
BodyVictims == {deaths[i].victim : i \in {j \in DOMAIN deaths :
                                              deaths[j].killer # deaths[j].victim}}

\* the preconditions of an eat claim, as the contract states them
ClaimValid(c, f) ==
    /\ c \in DOMAIN players
    /\ players[c].alive
    /\ f \in DOMAIN foods
    /\ Dist2(players[c].segments[1], foods[f].position) <= 250 * 250

RoomUnchanged ==
    UNCHANGED <<players, order, foods, nextFoodId, clientFoods, timestamp>>

(***************************************************************************)
(* C1: within one tick, at most one death is resolved for any player: at   *)
(* most one playerDied broadcast names it and at most one kill resolution  *)
(* (killer credit and corpse food) has it as victim.                       *)
(***************************************************************************)
C1_KilledOncePerTick ==
    \A p \in AnySession :
        /\ Count(outbox, LAMBDA m : m.type = "playerDied" /\ m.playerId = p) <= 1
        /\ Count(deaths, LAMBDA e : e.victim = p) <= 1

(***************************************************************************)
(* C2: in a tick every movePlayer call comes before every                  *)
(* checkPlayerCollisions call, so that all checks see all players moved.   *)
(***************************************************************************)
C2_MoveBeforeAnyCheck ==
    \A i, j \in DOMAIN tickLog :
        (tickLog[i].step = "check" /\ tickLog[j].step = "move") => j < i

(***************************************************************************)
(* C3: in a tick in which one player dies by running into another player's *)
(* body, exactly one player gains floor(victimScore / 2) and no other      *)
(* score changes through that death.                                       *)
(***************************************************************************)
ScoreAfterMove(p) ==
    IF players[p].alive THEN BoostDrain(players[p]).score ELSE players[p].score

RECURSIVE AwardSum(_, _, _)
\* the awards player q is owed when k names the one killer of each victim
AwardSum(vs, k, q) ==
    IF vs = {} THEN 0
    ELSE LET v == CHOOSE x \in vs : TRUE
         IN  (IF k[v] = q THEN players'[v].score \div 2 ELSE 0)
                 + AwardSum(vs \ {v}, k, q)

C3_OneKillerAward ==
    [][IsTickStep =>
        \E k \in [BodyVictims' -> DOMAIN players] :
            /\ \A v \in BodyVictims' : k[v] # v
            /\ \A q \in DOMAIN players :
                   players'[q].score - ScoreAfterMove(q)
                       = AwardSum(BodyVictims', k, q)]_vars

(***************************************************************************)
(* C4: a valid eat claim for a food of value V adds exactly V to the       *)
(* claimant's score, adds 3 segments if V > 1 and 1 otherwise, removes the *)
(* food and spawns exactly one replacement, so the food count is unchanged.*)
(***************************************************************************)
C4_EatEffect ==
    [][\A c \in AnySession, f \in 1..nextFoodId :
        (IsEatStep(c, f) /\ ClaimValid(c, f)) =>
            /\ players'[c].score = players[c].score + foods[f].value
            /\ Len(players'[c].segments) =
                   Len(players[c].segments) + (IF foods[f].value > 1 THEN 3 ELSE 1)
            /\ f \notin DOMAIN foods'
            /\ Cardinality(DOMAIN foods' \ DOMAIN foods) = 1
            /\ DOMAIN foods \ DOMAIN foods' = {f}
            /\ Cardinality(DOMAIN foods') = Cardinality(DOMAIN foods)]_vars

\* a special food (value > 1) has just been eaten
C4_Witness ==
    /\ lastOp.op = "eatFood"
    /\ \E i \in DOMAIN outbox :
          /\ outbox[i].type = "foodConsumed"
          /\ outbox[i].value > 1
          /\ outbox[i].playerId = lastOp.who
          /\ players[lastOp.who].score >= outbox[i].value

(***************************************************************************)
(* C5: an eat claim that fails (unknown or dead sender, unknown food id,   *)
(* distance above 250) changes nothing in the room and sends no message.   *)
(***************************************************************************)
C5_FailedEatIsNoOp ==
    [][\A c \in AnySession, f \in 1..nextFoodId :
        (IsEatStep(c, f) /\ ~ClaimValid(c, f)) =>
            /\ RoomUnchanged
            /\ outbox' = <<>>]_vars

\* an alive player has just claimed an existing food that is too far away
C5_Witness ==
    /\ lastOp.op = "eatFood"
    /\ outbox = <<>>
    /\ lastOp.who \in DOMAIN players
    /\ players[lastOp.who].alive
    /\ lastOp.arg \in DOMAIN foods
    /\ Dist2(players[lastOp.who].segments[1], foods[lastOp.arg].position) > 250 * 250

(***************************************************************************)
(* C6: each food is consumed at most once: no food id occurs twice among   *)
(* the foodConsumed broadcasts, and a claim for an id that was consumed    *)
(* before changes nothing and sends nothing.                               *)
(***************************************************************************)
ConsumedIds == {consumed[i] : i \in DOMAIN consumed}

C6_ConsumedOnce ==
    [][/\ \A i, j \in DOMAIN consumed' : consumed'[i] = consumed'[j] => i = j
       /\ \A c \in AnySession, f \in ConsumedIds :
            IsEatStep(c, f) => (RoomUnchanged /\ outbox' = <<>>
                                    /\ consumed' = consumed)]_vars

\* a second claim for a food that was eaten before has just been handled
C6_Witness ==
    /\ lastOp.op = "eatFood"
    /\ lastOp.arg \in ConsumedIds
    /\ outbox = <<>>
    /\ lastOp.who \in DOMAIN players
    /\ players[lastOp.who].alive

(***************************************************************************)
(* C7: every food inserted is announced by exactly one foodSpawned         *)
(* broadcast with its id and value, every food removed by exactly one      *)
(* foodConsumed broadcast, and after every handler each connected client   *)
(* holds exactly the server's set of food ids.                             *)
(***************************************************************************)
Announced(box, type, f) ==
    Count(box, LAMBDA m : m.type = type /\ m.id = f /\ m.to = "all")

ClientsInSync == \A c \in DOMAIN players : clientFoods[c] = DOMAIN foods

C7_FoodEventsComplete ==
    /\ \A f \in DOMAIN foods : Announced(outbox, "foodSpawned", f) = 1
    /\ [][/\ \A f \in DOMAIN foods' \ DOMAIN foods :
                /\ Announced(outbox', "foodSpawned", f) = 1
                /\ \E i \in DOMAIN outbox' :
                      /\ outbox'[i].type = "foodSpawned"
                      /\ outbox'[i].id = f
                      /\ outbox'[i].value = foods'[f].value
          /\ \A f \in DOMAIN foods \ DOMAIN foods' :
                Announced(outbox', "foodConsumed", f) = 1
          /\ ClientsInSync']_vars

\* clients have followed an eaten food and the corpse food of a death
C7_Witness ==
    /\ lastOp.op = "tick"
    /\ deaths # <<>>
    /\ consumed # <<>>
    /\ \E i \in DOMAIN outbox : outbox[i].type = "foodSpawned"
    /\ Cardinality(DOMAIN players) >= 2
    /\ ClientsInSync

(***************************************************************************)
(* C8: a join sends the joining client, and nobody else, a welcome and     *)
(* then one initialFoods message that lists exactly the foods of the       *)
(* server at that moment; no food event is emitted by the join.            *)
(***************************************************************************)
C8_JoinSnapshot ==
    [][\A c \in AnySession :
        IsJoinStep(c) =>
            /\ Len(outbox') = 2
            /\ outbox'[1].type = "welcome" /\ outbox'[1].to = c
            /\ outbox'[2].type = "initialFoods" /\ outbox'[2].to = c
            /\ DOMAIN outbox'[2].body = DOMAIN foods
            /\ \A f \in DOMAIN foods :
                  /\ outbox'[2].body[f].id = f
                  /\ outbox'[2].body[f].position = foods[f].position
                  /\ outbox'[2].body[f].value = foods[f].value
            /\ foods' = foods
            /\ clientFoods'[c] = DOMAIN foods
            /\ \A o \in DOMAIN players : clientFoods'[o] = clientFoods[o]]_vars

\* a client has just joined a game in which food was eaten and a tick ran
C8_Witness ==
    /\ lastOp.op = "join"
    /\ ticks >= 1
    /\ consumed # <<>>
    /\ Cardinality(DOMAIN players) >= 2
    /\ clientFoods[lastOp.who] = DOMAIN foods

(***************************************************************************)
(* C9: a dead player becomes alive only through its own respawn message,   *)
(* and an alive player becomes dead only inside a tick.                    *)
(***************************************************************************)
C9_LifeTransitions ==
    [][\A p \in DOMAIN players \cap DOMAIN players' :
        /\ (~players[p].alive /\ players'[p].alive)
               => IsRespawnStep(p)
        /\ (players[p].alive /\ ~players'[p].alive)
               => (IsTickStep /\ \E i \in DOMAIN deaths' : deaths'[i].victim = p)
      ]_vars

\* a player that was dead has just been respawned
C9_Witness ==
    /\ lastOp.op = "respawn"
    /\ lastOp.who \in deadBefore
    /\ lastOp.who \in DOMAIN players
    /\ players[lastOp.who].alive

(***************************************************************************)
(* C10: while a player is dead (until its respawn or leave) it stays in    *)
(* the players map with its id, score, head position and segments          *)
(* unchanged by ticks and messages, and nobody dies from its body.         *)
(***************************************************************************)
C10_DeadIsFrozen ==
    [][\A p \in DOMAIN players :
        (/\ ~players[p].alive
         /\ ~IsRespawnStep(p)
         /\ ~IsLeaveStep(p))
        => /\ p \in DOMAIN players'
           /\ players'[p].id = players[p].id
           /\ players'[p].score = players[p].score
           /\ players'[p].headPosition = players[p].headPosition
           /\ players'[p].segments = players[p].segments
           /\ \A i \in DOMAIN deaths' : deaths'[i].killer # p]_vars

\* in the last tick a player ran into where a dead player lies, and the
\* dead player was left as it was
C10_Witness ==
    /\ lastOp.op = "tick"
    /\ \E p \in deadBefore \cap DOMAIN players, q \in DOMAIN players :
          /\ ~players[p].alive
          /\ q # p
          /\ q \notin deadBefore
          /\ HitsBody(players[q].segments[1], players[p].segments)

(***************************************************************************)
(* C11: a respawn message from a player that is alive, or from an unknown  *)
(* session, is a no-op: the score, segment chain, position and alive flag  *)
(* of every player stay as they were.                                      *)
(***************************************************************************)
C11_RespawnOnlyWhenDead ==
    [][\A c \in AnySession :
        (IsRespawnStep(c) /\ (c \notin DOMAIN players \/ players[c].alive))
            => players' = players]_vars

(***************************************************************************)
(* C18: in every state reached after a tick or a message handler, the      *)
(* replicated headPosition of every player is the position of the head     *)
(* segment segments[0] of its chain.                                       *)
(***************************************************************************)
C18_HeadPositionAccurate ==
    \A p \in DOMAIN players :
        players[p].headPosition = players[p].segments[1]

(***************************************************************************)
(* C19: in a tick an alive player dies from another player exactly when,   *)
(* at its collision check, its head is closer than 10 + 8 = 18 to a        *)
(* segment of index >= 1 of another player that is alive; another player's *)
(* head alone, or the body of a dead player, never kills.                  *)
(***************************************************************************)
Position(ord, p) == CHOOSE i \in DOMAIN ord : ord[i] = p

\* player o as the collision check of player p finds it: players earlier in
\* the iteration have had their move and their own check, later ones not yet
SeenBy(p, o) ==
    IF Position(order, o) < Position(order, p) THEN players'[o] ELSE players[o]

Near(h, segs, from, r) ==
    \E i \in DOMAIN segs : i - 1 >= from /\ Dist2(h, segs[i]) < r * r

DiedFromOther(p) ==
    \E i \in DOMAIN deaths' : deaths'[i].victim = p /\ deaths'[i].killer # p

C19_InterPlayerRule ==
    [][IsTickStep =>
        \A p \in DOMAIN players :
            players[p].alive =>
                (DiedFromOther(p) <=>
                    \E o \in DOMAIN players \ {p} :
                        /\ SeenBy(p, o).alive
                        /\ Near(players'[p].segments[1], SeenBy(p, o).segments,
                                1, 18))]_vars

\* in the last tick a player ran into the body of another one, which had
\* itself survived its check with its head next to the victim's head
C19_Witness ==
    /\ lastOp.op = "tick"
    /\ \E p \in DOMAIN players \ deadBefore, o \in DOMAIN players \ deadBefore :
          /\ p # o
          /\ players[o].alive
          /\ ~players[p].alive
          /\ \E i \in DOMAIN deaths : deaths[i].victim = p /\ deaths[i].killer = o
          /\ Dist2(players[o].segments[1], players[p].segments[1]) < 18 * 18
          /\ ~Near(players[o].segments[1], players[p].segments, 1, 18)

(***************************************************************************)
(* Steps of any of the specifications, told by what they leave behind      *)
(***************************************************************************)
TickRan == lastOp'.op = "tick" /\ ticks' = ticks + 1

MessageRan(op, c) ==
    lastOp' = [op |-> op, who |-> c, arg |-> 0] /\ msgs' = msgs + 1

\* the entries of the last tick's log of moves that report the given drain
Drained(kind) ==
    {tickLog[i].player : i \in {j \in DOMAIN tickLog :
                                    tickLog[j].step = "move" /\ tickLog[j].drain = kind}}

RECURSIVE AwardsTo(_, _)
\* what the kill resolutions ds credit to player q
AwardsTo(ds, q) ==
    IF ds = <<>> THEN 0
    ELSE (IF Head(ds).killer = q /\ Head(ds).victim # q THEN Head(ds).award ELSE 0)
             + AwardsTo(Tail(ds), q)

(***************************************************************************)
(* C12: after the respawn message of a dead player is handled, the player  *)
(* is alive with score 0, exactly 5 segments laid out leftwards from a     *)
(* spawn point at the spacing of 20, boosting = false and boostTime = 0.   *)
(***************************************************************************)
C12_RespawnResets ==
    [][\A c \in DOMAIN players :
        (MessageRan("respawn", c) /\ ~players[c].alive) =>
            /\ players'[c].alive
            /\ players'[c].score = 0
            /\ Len(players'[c].segments) = 5
            /\ \A i \in 1..5 :
                  players'[c].segments[i] =
                      Vec(players'[c].segments[1].x - (i - 1) * 20,
                          players'[c].segments[1].y)
            /\ ~players'[c].boosting
            /\ players'[c].boostTime = 0]_vars

(***************************************************************************)
(* C13: after a boost message of a known player is handled, its boosting   *)
(* flag is true exactly if the player is alive, the message asks for       *)
(* active = true and the score is at least 1.                              *)
(***************************************************************************)
C13_BoostFlag ==
    [][\A active \in BOOLEAN :
        (MessageRan("boost", Solo) /\ SoloBoost(active)) =>
            (players'[Solo].boosting <=>
                (players[Solo].alive /\ active /\ players[Solo].score >= 1))]_vars

(***************************************************************************)
(* C14: when the accumulator of a boosting player reaches the threshold    *)
(* while its chain has the minimum of 5 segments, the tick switches        *)
(* boosting off and takes neither a segment nor a score point; no tick     *)
(* shrinks a chain of 5 or more segments below 5.                          *)
(***************************************************************************)
C14_NoDrainAtFloor ==
    [][TickRan =>
        \A p \in DOMAIN players :
            /\ (/\ players[p].alive
                /\ players[p].boosting
                /\ Len(players[p].segments) = 5
                /\ players[p].boostTime + 16 >= 500)
               => /\ ~players'[p].boosting
                  /\ Len(players'[p].segments) = 5
                  /\ players'[p].score >= players[p].score
            /\ Len(players[p].segments) >= 5
               => Len(players'[p].segments) >= 5]_vars

\* the last tick switched off the boost of a snake of 5 segments
C14_Witness ==
    /\ lastOp.op = "tick"
    /\ \E p \in Drained("off") :
          /\ players[p].alive
          /\ ~players[p].boosting
          /\ Len(players[p].segments) = 5

(***************************************************************************)
(* C15: in a tick, a boosting player with more than 5 segments whose       *)
(* accumulator (advanced by 16 ms) reaches 500 ms loses exactly one score  *)
(* point and one tail segment and its accumulator restarts at 0; below     *)
(* 500 ms the accumulator advances by 16 and nothing is drained; a player  *)
(* that is not boosting has its accumulator reset to 0 and loses nothing.  *)
(***************************************************************************)
C15_BoostDrain ==
    [][TickRan =>
        \A p \in DOMAIN players :
            players[p].alive =>
                LET pl == players[p]
                    q  == players'[p]
                    gained == AwardsTo(deaths', p)
                IN  /\ (pl.boosting /\ Len(pl.segments) > 5 /\ pl.boostTime + 16 >= 500)
                       => /\ q.score = pl.score - 1 + gained
                          /\ Len(q.segments) = Len(pl.segments) - 1
                          /\ q.boostTime = 0
                          /\ q.boosting
                    /\ (pl.boosting /\ pl.boostTime + 16 < 500)
                       => /\ q.score = pl.score + gained
                          /\ Len(q.segments) = Len(pl.segments)
                          /\ q.boostTime = pl.boostTime + 16
                    /\ ~pl.boosting
                       => /\ q.score = pl.score + gained
                          /\ Len(q.segments) = Len(pl.segments)
                          /\ q.boostTime = 0]_vars

\* the last tick drained a point and a segment from a snake that boosts on
C15_Witness ==
    /\ lastOp.op = "tick"
    /\ \E p \in Drained("segment") :
          /\ players[p].alive
          /\ players[p].boosting
          /\ players[p].boostTime = 0
          /\ players[p].score >= 1

(***************************************************************************)
(* C16: after a tick, for every alive player and every index i > 0 still   *)
(* in its chain, segments[i] is the position segments[i-1] had before the  *)
(* tick, also when the boost drain has removed the tail.                   *)
(***************************************************************************)
C16_ShiftRegister ==
    [][TickRan =>
        \A p \in DOMAIN players :
            players'[p].alive =>
                \A i \in 2..Len(players'[p].segments) :
                    players'[p].segments[i] = players[p].segments[i - 1]]_vars

\* the last tick moved a stretched-out snake and popped its tail
C16_Witness ==
    /\ lastOp.op = "tick"
    /\ \E p \in Drained("segment") :
          /\ players[p].alive
          /\ Len(players[p].segments) >= 6
          /\ \A i \in 2..Len(players[p].segments) :
                players[p].segments[i] # players[p].segments[i - 1]

DiedFromSelf(p) ==
    \E i \in DOMAIN deaths' : deaths'[i].victim = p /\ deaths'[i].killer = p

C20_SelfCollisionRule ==
    [][TickRan =>
        \A p \in DOMAIN players :
            DiedFromSelf(p) =>
                /\ players[p].alive
                /\ Len(players'[p].segments) > 5
                /\ Near(players'[p].segments[1], players'[p].segments, 5, 8)]_vars

\* in the last tick a snake of more than 5 segments turned back and ran
\* into its own tail
C20_Witness ==
    /\ lastOp.op = "tick"
    /\ \E p \in DOMAIN players :
          /\ ~players[p].alive
          /\ \E i \in DOMAIN deaths : deaths[i].victim = p /\ deaths[i].killer = p
          /\ Len(players[p].segments) > 5
          /\ Near(players[p].segments[1], players[p].segments, 5, 8)
          /\ players[p].segments[2] # players[p].segments[1]

(***************************************************************************)
(* C21: every death of a tick is announced by a playerDied broadcast that  *)
(* names the victim, and the corpse becomes exactly                        *)
(* min(floor(chainLength / 3), 20) new foods of value 1, each within 20    *)
(* units per axis of one of the victim's segments and each announced by    *)
(* one foodSpawned broadcast.                                              *)
(***************************************************************************)
Victims == {p \in DOMAIN players : players[p].alive /\ ~players'[p].alive}

CorpseSize(pl) ==
    LET n == Len(pl.segments) \div 3 IN IF n < 20 THEN n ELSE 20

RECURSIVE CorpseTotal(_, _)
CorpseTotal(ps, vs) ==
    IF vs = {} THEN 0
    ELSE LET v == CHOOSE x \in vs : TRUE
         IN  CorpseSize(ps[v]) + CorpseTotal(ps, vs \ {v})

Within(a, b, r) == a - b <= r /\ b - a <= r

C21_CorpseFood ==
    [][TickRan =>
        LET new == DOMAIN foods' \ DOMAIN foods
        IN  /\ \A p \in Victims :
                  Count(outbox', LAMBDA m : m.type = "playerDied" /\ m.playerId = p) >= 1
            /\ Cardinality(new) = CorpseTotal(players', Victims)
            /\ \A f \in new :
                  /\ foods'[f].value = 1
                  /\ Announced(outbox', "foodSpawned", f) = 1
                  /\ \E p \in Victims :
                        \E i \in DOMAIN players'[p].segments :
                            /\ Within(foods'[f].position.x, players'[p].segments[i].x, 20)
                            /\ Within(foods'[f].position.y, players'[p].segments[i].y, 20)
       ]_vars

(***************************************************************************)
(* C22: mutual kill: when in one tick the head of player A is within the   *)
(* kill radius of a non-head segment of B and the head of B within the     *)
(* kill radius of a non-head segment of A, both A and B die in that tick.  *)
(***************************************************************************)
C22_MutualKill ==
    [][TickRan =>
        \A a, b \in DOMAIN players :
            (/\ a # b
             /\ players[a].alive
             /\ players[b].alive
             /\ Near(players'[a].segments[1], players'[b].segments, 1, 18)
             /\ Near(players'[b].segments[1], players'[a].segments, 1, 18))
            => (~players'[a].alive /\ ~players'[b].alive)]_vars

(***************************************************************************)
(* C23: in every tick each player that is alive when the tick starts is    *)
(* moved exactly once, whatever happened to players handled before it, and *)
(* a dead player is not moved.                                             *)
(***************************************************************************)
MovesOf(log, p) == Count(log, LAMBDA e : e.step = "move" /\ e.player = p)

OneStepAhead(pl) ==
    LET m == IF pl.boosting THEN 6 ELSE 3
    IN  Vec((pl.segments[1].x + Cos(pl.angle) * pl.speed * m) % worldWidth,
            (pl.segments[1].y + Sin(pl.angle) * pl.speed * m) % worldHeight)

C23_MovedOncePerTick ==
    [][TickRan =>
        \A p \in DOMAIN players :
            IF players[p].alive
            THEN /\ MovesOf(tickLog', p) = 1
                 /\ players'[p].segments[1] = OneStepAhead(players[p])
                 /\ players'[p].segments[2] = players[p].segments[1]
            ELSE /\ MovesOf(tickLog', p) = 0
                 /\ players'[p].segments = players[p].segments]_vars

\* in the last tick a player died and a player handled after it moved
C23_Witness ==
    /\ lastOp.op = "tick"
    /\ \E i, j \in DOMAIN order :
          /\ i < j
          /\ \E k \in DOMAIN deaths : deaths[k].victim = order[i]
          /\ order[j] \notin deadBefore
          /\ MovesOf(tickLog, order[j]) = 1
          /\ origin[order[j]].n >= 1

(***************************************************************************)
(* C24: a move message of an alive player sets its heading to exactly the  *)
(* angle sent and changes nothing else; a move message of a dead or        *)
(* unknown player changes nothing; no message is sent.                     *)
(***************************************************************************)
MoveSent(c, angle) == Move(c, angle) \/ (c = Solo /\ SoloMove(angle))

C24_MoveFrame ==
    [][\A c \in AnySession :
        MessageRan("move", c) =>
            /\ \A angle \in Angles \cup SoloAngles :
                  MoveSent(c, angle) =>
                      IF c \in DOMAIN players /\ players[c].alive
                      THEN players' = [players EXCEPT ![c].angle = angle]
                      ELSE players' = players
            /\ UNCHANGED <<order, foods, nextFoodId, clientFoods, timestamp>>
            /\ outbox' = <<>>]_vars

\* an alive player has just sent a heading outside [0, 360)
C24_Witness ==
    /\ lastOp.op = "move"
    /\ lastOp.who \in DOMAIN players
    /\ players[lastOp.who].alive
    /\ origin[lastOp.who].n = 0
    /\ (players[lastOp.who].angle < 0 \/ players[lastOp.who].angle >= 360)

(***************************************************************************)
(* C25: an eat claim is accepted exactly when the claimant is alive, the   *)
(* food exists and the server's head is at most 250 from the server's food *)
(* position; two claims that differ only in the positions the client sends *)
(* along leave the room in the same state.                                 *)
(***************************************************************************)
Outcome(R) == <<R.players, R.order, R.foods, R.nextFoodId, R.outbox>>

C25_EatDependsOnServerState ==
    \A c \in {Solo, "b"}, f \in 1..nextFoodId, h1 \in ClaimedPlaces, h2 \in ClaimedPlaces :
        LET R1 == onEatFoodMessage(Room, c, EatMessage(f, h1, h1), SoloRefill)
            R2 == onEatFoodMessage(Room, c, EatMessage(f, h2, h2), SoloRefill)
        IN  /\ Outcome(R1) = Outcome(R2)
            /\ (Outcome(R1) # Outcome(Room)) <=> ClaimValid(c, f)

\* a claim that places head and food far from where the server has them
\* has just been accepted
C25_Witness ==
    /\ lastOp.op = "eatFood"
    /\ \E i \in DOMAIN outbox :
          /\ outbox[i].type = "foodConsumed"
          /\ outbox[i].id = claim.foodId
          /\ outbox[i].playerId = lastOp.who
    /\ Dist2(Vec(claim.headX, claim.headY), players[lastOp.who].segments[1])
           > 250 * 250

(***************************************************************************)
(* C26: the totalLength of every player is at least the number of segments *)
(* of its chain.                                                           *)
(***************************************************************************)
C26_TotalLengthCoversChain ==
    \A p \in DOMAIN players : players[p].totalLength >= Len(players[p].segments)

(***************************************************************************)
(* C27: the chain of a player never has more than 20 segments (the sync    *)
(* cap); when a player whose chain has 20 segments eats, the chain keeps   *)
(* its length and only totalLength and score grow.                         *)
(***************************************************************************)
C27_SyncCap ==
    [][\A p \in DOMAIN players' :
          /\ Len(players'[p].segments) <= 20
          /\ (/\ p \in DOMAIN players
              /\ lastOp'.op = "eatFood"
              /\ Len(players[p].segments) = 20)
             => /\ Len(players'[p].segments) = 20
                /\ players'[p].totalLength >= players[p].totalLength
                /\ players'[p].score >= players[p].score]_vars

(***************************************************************************)
(* C28: every tick advances the timestamp: it is strictly greater after    *)
(* the tick than before, and no step ever decreases it.                    *)
(***************************************************************************)
C28_TimestampAdvances ==
    [][/\ timestamp' >= timestamp
       /\ TickRan => timestamp' > timestamp]_vars

(***************************************************************************)
(* C29: whenever a player is killed by running into the body of another    *)
(* player, a playerKilled event is broadcast to all clients in that tick.  *)
(***************************************************************************)
C29_PlayerKilledBroadcast ==
    [][TickRan =>
        \A i \in DOMAIN deaths' :
            deaths'[i].killer # deaths'[i].victim =>
                \E j \in DOMAIN outbox' :
                    /\ outbox'[j].type = "playerKilled"
                    /\ outbox'[j].to = "all"]_vars

(***************************************************************************)
(* C30: while an alive player keeps its heading and its boost state and    *)
(* does not collide, after N ticks its head is N x speed x multiplier      *)
(* along the heading from where it was, modulo the world's size; the       *)
(* multiplier when boosting is twice the one when not boosting.            *)
(***************************************************************************)
C30_Displacement ==
    \A p \in DOMAIN players :
        players[p].alive =>
            LET pl   == players[p]
                m    == IF pl.boosting THEN 2 * NormalMultiplier ELSE NormalMultiplier
                dist == origin[p].n * pl.speed * m
            IN  /\ pl.segments[1].x =
                       (origin[p].head.x + Cos(pl.angle) * dist) % worldWidth
                /\ pl.segments[1].y =
                       (origin[p].head.y + Sin(pl.angle) * dist) % worldHeight

\* a boosting snake has run straight for 10 ticks or more and has crossed
\* the world's edge on its way
C30_Witness ==
    /\ lastOp.op = "tick"
    /\ \E p \in DOMAIN players :
          /\ players[p].alive
          /\ players[p].boosting
          /\ origin[p].n >= 10
          /\ players[p].angle = 540
          /\ players[p].segments[1].x > origin[p].head.x

(***************************************************************************)
(* C33: onLeave removes exactly the leaving player from the players map    *)
(* and leaves every other player and the food set as they were; a leave of *)
(* a session that is not in the map changes nothing, and so does every     *)
(* message of a session that is not in the map.                            *)
(***************************************************************************)
C33_LeaveRemovesOne ==
    [][\A c \in AnySession :
        /\ IsLeaveStep(c) =>
              /\ players' = [p \in DOMAIN players \ {c} |-> players[p]]
              /\ order' = SelectSeq(order, LAMBDA x : x # c)
              /\ UNCHANGED <<foods, nextFoodId, timestamp>>
              /\ outbox' = <<>>
              /\ c \notin DOMAIN players => RoomUnchanged
        /\ (/\ c \notin DOMAIN players
            /\ lastOp'.who = c
            /\ lastOp'.op \in {"move", "boost", "respawn", "eatFood"})
           => (RoomUnchanged /\ outbox' = <<>>)]_vars

\* a client that had joined has left while another player is in the room
C33_Witness ==
    /\ lastOp.op = "leave"
    /\ lastOp.who \in seen
    /\ lastOp.who \notin DOMAIN players
    /\ DOMAIN players # {}

(***************************************************************************)
(* C34: the score of every player is a non-negative integer in every       *)
(* reachable state.                                                        *)
(***************************************************************************)
C34_ScoreNonNegative ==
    \A p \in DOMAIN players : players[p].score \in Nat

\* the boost drain of the last tick has taken the player's last score point
C34_Witness ==
    /\ lastOp.op = "tick"
    /\ \E p \in Drained("segment") :
          /\ players[p].alive
          /\ players[p].score = 0

(***************************************************************************)
(* C35: every player in the players map, alive or dead, has a chain of at  *)
(* least 5 segments in every reachable state.                              *)
(***************************************************************************)
C35_AtLeastFiveSegments ==
    \A p \in DOMAIN players : Len(players[p].segments) >= 5

\* the boost drain of the last tick has brought a chain down to 5 segments
C35_Witness ==
    /\ lastOp.op = "tick"
    /\ \E p \in Drained("segment") :
          /\ players[p].boosting
          /\ Len(players[p].segments) = 5

(***************************************************************************)
(* C36: the score of every player is at least its chain length minus 5;    *)
(* so whenever the boost drain removes a tail segment the score was at     *)
(* least 1 before and the drain lowers it by exactly 1, not clamped at 0.  *)
(***************************************************************************)
C36_ScoreCoversGrowth ==
    [][\A p \in DOMAIN players' :
          /\ players'[p].score >= Len(players'[p].segments) - 5
          /\ (/\ TickRan
              /\ p \in DOMAIN players
              /\ Len(players'[p].segments) < Len(players[p].segments))
             => /\ players[p].score >= 1
                /\ players'[p].score >= players[p].score - 1]_vars

\* the boost drain of the last tick took a segment from a snake whose score
\* was exactly its growth
C36_Witness ==
    /\ lastOp.op = "tick"
    /\ \E p \in Drained("segment") :
          /\ players[p].alive
          /\ players[p].score = Len(players[p].segments) - 5

(***************************************************************************)
(* C38: after the room's creation the number of foods never decreases and  *)
(* is never below maxFoods; a tick in which nobody dies adds no food (its  *)
(* replenishment branch is not taken).                                     *)
(***************************************************************************)
C38_FoodNeverBelowTarget ==
    [][/\ Cardinality(DOMAIN foods') >= Cardinality(DOMAIN foods)
       /\ Cardinality(DOMAIN foods') >= MaxFoods
       /\ (TickRan /\ Victims = {}) => foods' = foods]_vars

\* a food has just been eaten and replaced in the same handler
C38_Witness ==
    /\ lastOp.op = "eatFood"
    /\ \E i \in DOMAIN outbox : outbox[i].type = "foodConsumed"
    /\ \E i \in DOMAIN outbox : outbox[i].type = "foodSpawned"
    /\ Cardinality(DOMAIN foods) = MaxFoods

(***************************************************************************)
(* C37 (as claimed): in every reachable state a player whose boosting flag *)
(* is true is alive and has a score of at least 1.                         *)
(***************************************************************************)
C37_BoostGatedAlways ==
    \A p \in DOMAIN players :
        players[p].boosting => (players[p].alive /\ players[p].score >= 1)

(***************************************************************************)
(* C37 (amended): the boosting flag turns true only when a boost message   *)
(* of an alive player with a score of at least 1 is handled; no other step *)
(* switches it on (it is not looked at again when the score drops or the   *)
(* player dies).                                                           *)
(***************************************************************************)
C37_BoostGatedAtMessage ==
    [][\A p \in DOMAIN players' :
          (players'[p].boosting /\ (p \notin DOMAIN players \/ ~players[p].boosting))
          => /\ lastOp'.op = "boost"
             /\ lastOp'.who = p
             /\ p \in DOMAIN players
             /\ players[p].alive
             /\ players[p].score >= 1]_vars

\* a boost message has just switched the flag on
C37_Witness ==
    /\ lastOp.op = "boost"
    /\ lastOp.who \in DOMAIN players
    /\ players[lastOp.who].boosting
    /\ players[lastOp.who].boostTime = 0
    /\ players[lastOp.who].score >= 1

(***************************************************************************)
(* C39 (as claimed): in every reachable state the number of foods is at    *)
(* most maxFoods.                                                          *)
(***************************************************************************)
C39_FoodBounded == Cardinality(DOMAIN foods) <= MaxFoods

RECURSIVE CorpseFoodOf(_, _)
\* the corpse food of the kill resolutions ds, for the players ps
CorpseFoodOf(ps, ds) ==
    IF ds = <<>> THEN 0
    ELSE CorpseSize(ps[Head(ds).victim]) + CorpseFoodOf(ps, Tail(ds))

(***************************************************************************)
(* C39 (amended): the food set is not bounded by maxFoods: a tick adds     *)
(* min(floor(chainLength / 3), 20) foods for every kill it resolves, on    *)
(* top of whatever is there, and no other step changes the number of       *)
(* foods.                                                                  *)
(***************************************************************************)
C39_FoodGrowsWithDeaths ==
    [][Cardinality(DOMAIN foods') =
           Cardinality(DOMAIN foods)
               + (IF TickRan THEN CorpseFoodOf(players', deaths') ELSE 0)]_vars

\* after the last tick's deaths the room holds more than maxFoods foods
C39_Witness ==
    /\ lastOp.op = "tick"
    /\ deaths # <<>>
    /\ Cardinality(DOMAIN foods) > MaxFoods

(***************************************************************************)
(* C40 (as claimed): every segment of every player and every food lies     *)
(* inside the world: 0 <= x < worldWidth and 0 <= y < worldHeight.         *)
(***************************************************************************)
InWorld(v) == 0 <= v.x /\ v.x < worldWidth /\ 0 <= v.y /\ v.y < worldHeight

AtTheEdge(pl) ==
    /\ pl.alive
    /\ ~pl.boosting
    /\ pl.segments[1] = Vec(7999, 10)
    /\ pl.angle = 0
    /\ pl.speed = 3

Wrapped ==
    UNION {{<<players[p].segments[i].x, worldWidth>>,
            <<players[p].segments[i].y, worldHeight>>,
            <<players[p].segments[i].x + d, worldWidth>>,
            <<players[p].segments[i].y + d, worldHeight>>} :
           p \in DOMAIN players, i \in 1..5, d \in {-30, -9, 9, 30}}

C32_WrapIdempotent ==
    \A w \in Wrapped :
        LET value == w[1]
            max   == w[2]
        IN  /\ (0 <= value /\ value < max) => wrapCoordinate(value, max) = value
            /\ wrapCoordinate(wrapCoordinate(value, max), max)
                   = wrapCoordinate(value, max)

\* the last step went along the lower edge without crossing an edge: both
\* coordinates of the new head went through the wrap unchanged
C32_Witness ==
    /\ lastOp.op = "tick"
    /\ \E p \in DOMAIN players :
          /\ players[p].alive
          /\ players[p].segments[1].y = 0
          /\ players[p].segments[2].y = 0
          /\ players[p].segments[1].x > players[p].segments[2].x
          /\ players[p].segments[1].x - players[p].segments[2].x <= 30

====
